---- MODULE Spec2Model ----
(***************************************************************************)
(* Lookback-option scans of the Quantum_Options_Spring_2023 notebooks.     *)
(*                                                                         *)
(* One kernel runs the scan cells of one notebook.  A scan cell prices one *)
(* vanilla option per day for N days (a Monte Carlo pricer in the          *)
(* classical notebook, amplitude estimation in the quantum notebooks),     *)
(* appends the per-day results to a list and finally prints the maximum,   *)
(* its confidence interval and its day.                                    *)
(*                                                                         *)
(* Units.  Prices are integers in thousandths (S = 2.0 is 2000).           *)
(* Volatility is in tenths (0.4 is 4).  Time is counted in multiples of    *)
(* dt = 1/365, so t = k means k/365 years; floating-point rounding of the  *)
(* repeated t += dt is not modelled.  Results of the amplitude-estimation  *)
(* pricer are kept as exact numerators, in thousandths times               *)
(* GridMax * ProbScale.                                                    *)
(***************************************************************************)
EXTENDS Integers, Sequences, FiniteSets, TLC

VARIABLES
    nb,         \* the notebook this kernel runs
    cell,       \* the scan cell being run: [kind, override]
    pc,         \* "idle", "loop" (inside the for loop), "done" (after the prints),
                \* "error" (the cell ended with an exception)
    i,          \* the loop variable of for i in range(40); N once the loop is over
    t,          \* the maturity variable t, in multiples of dt
    results,    \* the list results
    conf_list,  \* the list conf_list (stays empty in the classical notebook)
    out,        \* what the cell printed: [value, conf, day]
    rng,        \* state of the process-wide generator behind np.random (the
                \* quantum notebooks never draw from it: kept at 0 there)
    rng0,       \* history: the generator state when the running cell started
    priced,     \* history: per day, the arguments it was priced with and what
                \* the pricer returned
    calls,      \* history: every get_price_* invocation of the scan cells,
                \* arguments and output
    noisy,      \* history: days of this cell whose estimate was off the exact value
    runs,       \* history: scan cells started in the classical kernel
    probe       \* the last direct call of a helper function: [fn, args, ret, raised]

vars == <<nb, cell, pc, i, t, results, conf_list, out, rng, rng0, priced, calls, noisy, runs,
          probe>>

\* everything a scan cell binds or records
scanVars == <<cell, pc, i, t, results, conf_list, out, rng0, priced, calls, noisy, runs>>

(***************************************************************************)
(* Program constants                                                       *)
(***************************************************************************)
N == 40
S == 2000
KCall == 1896
KPut == 2100
Vol == 4
ShockVol == 9
ShockFirst == 20
ShockSecond == 21
DaysPerYear == 365
NumQubits == 3
Epsilon == 10

(***************************************************************************)
(* Bounds of the model                                                     *)
(***************************************************************************)
\* paths averaged by one Monte Carlo call (N=100000 in the source)
NSamples == 3
\* number of states of the generator (a full-period congruential generator
\* stands for the Mersenne Twister behind np.random)
RngMod == 16
\* scan cells one classical kernel starts
MaxRuns == 2
\* direct calls of the helper functions: maturities 0 .. MaxProbeT (in days)
MaxProbeT == 30
\* direct calls of the helper functions: volatilities -MaxProbeVol .. MaxProbeVol (in tenths)
MaxProbeVol == 12
\* direct calls of get_ae_results: strikes 0, StrikeStep, ..., MaxStrikeSteps * StrikeStep
StrikeStep == 300
MaxStrikeSteps == 10
\* days of one scan whose amplitude estimate is off the exact expectation
MaxNoisyDays == 1

Notebooks == {"Classical_Lookback", "Quantum_Lookback_Call", "Quantum_Lookback_Put"}

\* the scan cells of a notebook
Cells(n) ==
    IF n = "Classical_Lookback"
    THEN [kind : {"call", "put"}, override : BOOLEAN]
    ELSE IF n = "Quantum_Lookback_Call"
         THEN [kind : {"call"}, override : BOOLEAN]
         ELSE [kind : {"put"}, override : BOOLEAN]

NoCell == [kind |-> "none", override |-> FALSE]
NoOut == [value |-> -1, conf |-> << >>, day |-> 0]
NoProbe == [fn |-> "none", args |-> << >>, ret |-> << >>, raised |-> "none"]

Max(a, b) == IF a >= b THEN a ELSE b

(***************************************************************************)
(* Integer square root by bisection: the r with r*r <= x < (r+1)*(r+1).    *)
(***************************************************************************)
RECURSIVE SqrtBetween(_, _, _)
SqrtBetween(x, lo, hi) ==
    IF hi - lo <= 1
    THEN lo
    ELSE LET mid == (lo + hi) \div 2
         IN  IF mid * mid <= x THEN SqrtBetween(x, mid, hi) ELSE SqrtBetween(x, lo, mid)

ISqrt(x) == SqrtBetween(x, 0, 46340)

(***************************************************************************)
(* Standard deviation of the terminal price at maturity tt/365 under       *)
(* volatility vol/10: S * sqrt(exp(sigma^2) - 1) with sigma = vol*sqrt(t), *)
(* taken to first order in sigma^2 (sigma^2 < 0.06 on the whole grid),     *)
(* so stddev = S * vol * sqrt(t).  The mean is exp(mu + sigma^2/2)         *)
(* = S * exp(r*t) = S, since r = 0.0.                                      *)
(***************************************************************************)
StdDev(tt, vol) ==
    ISqrt(((((S * vol) \div 10) * ((S * vol) \div 10)) * tt) \div DaysPerYear)

\* a variant without the floor at 0: low = mean - 3 * stddev
get_uncertainty_model_unclamped(tt, vol) ==
    LET mean == S
        stddev == StdDev(tt, vol)
    IN  [low |-> mean - 3 * stddev, high |-> mean + 3 * stddev]

\* get_uncertainty_model: the bounds (low, high) returned beside the distribution
get_uncertainty_model(tt, vol) ==
    LET mean == S
        stddev == StdDev(tt, vol)
    IN  [low |-> Max(0, mean - 3 * stddev), high |-> mean + 3 * stddev]

(***************************************************************************)
(* The discretised distribution: 2^NumQubits equidistant points of         *)
(* [low, high]; grid point g is low + g*(high-low)/GridMax, kept times     *)
(* GridMax.  Prob holds the normalised densities of the grid points per    *)
(* ProbScale (the points sit at -3, -15/7, ..., +3 standard deviations).   *)
(***************************************************************************)
GridMax == 2^NumQubits - 1
Prob == <<4, 35, 150, 311, 311, 150, 35, 4>>
ProbScale == 1000
GridPoint(low, high, g) == GridMax * low + g * (high - low)

\* the payoff objective of the call (EuropeanCallPricing): max(x - K, 0)
CallObjective(x, low, K) == Max(x - GridMax * K, 0)

\* the payoff objective of the put: breakpoints [low, K], slopes [-1, 0],
\* offsets [K - low, 0]; the last breakpoint <= x selects the piece
PutObjective(x, low, K) ==
    IF x >= GridMax * K
    THEN 0
    ELSE GridMax * (K - low) - (x - GridMax * low)

Objective(kind, x, low) ==
    IF kind = "call" THEN CallObjective(x, low, KCall) ELSE PutObjective(x, low, KPut)

RECURSIVE SumGrid(_, _, _, _)
SumGrid(kind, low, high, g) ==
    IF g > GridMax
    THEN 0
    ELSE Prob[g + 1] * Objective(kind, GridPoint(low, high, g), low)
         + SumGrid(kind, low, high, g + 1)

\* the exact value of the estimation problem: the expectation of the
\* objective over the discretised distribution
AEExact(kind, low, high) == SumGrid(kind, low, high, 0)

HalfWidth == Epsilon * GridMax * ProbScale

(***************************************************************************)
(* get_ae_results: the amplitude estimation returns an estimate that is    *)
(* err off the exact value, and a confidence interval around it (in the    *)
(* recorded outputs the estimate is the midpoint of the interval).         *)
(***************************************************************************)
get_ae_results(kind, low, high, err) ==
    LET expected_payoff == AEExact(kind, low, high) + err
    IN  [expected_payoff |-> expected_payoff,
         conf_int |-> <<expected_payoff - HalfWidth, expected_payoff + HalfWidth>>]

\* the estimation errors the model samples: none, or the estimate lands on
\* the exact value of a neighbouring maturity (well inside the precision)
Errors(kind, tt, vol) ==
    LET at(d) == LET um == get_uncertainty_model(d, vol)
                 IN  AEExact(kind, um.low, um.high)
    IN  {at(d) - at(tt) : d \in {tt - 1, tt + 1} \cap (1 .. N + 1)}

(***************************************************************************)
(* The process-wide generator.  Every draw advances it.                    *)
(***************************************************************************)
RngNext(s) == (5 * s + 3) % RngMod

\* the standard-normal draw read off a generator state: -2 .. 2
Normal(s) == (s % 5) - 2

RECURSIVE RngAfter(_, _)
RngAfter(s, n) == IF n = 0 THEN s ELSE RngAfter(RngNext(s), n - 1)

\* a variant without the floor at 0: payoffs = paths[-1] - K
RECURSIVE SumCallPayoffsRaw(_, _, _, _)
SumCallPayoffsRaw(T, sigma, s, n) ==
    IF n = 0
    THEN 0
    ELSE ((S + Normal(s) * StdDev(T, sigma)) - KCall)
         + SumCallPayoffsRaw(T, sigma, RngNext(s), n - 1)

\* payoffs = np.maximum(paths[-1] - K, 0), summed over the n paths drawn from s on
RECURSIVE SumCallPayoffs(_, _, _, _)
SumCallPayoffs(T, sigma, s, n) ==
    IF n = 0
    THEN 0
    ELSE Max((S + Normal(s) * StdDev(T, sigma)) - KCall, 0)
         + SumCallPayoffs(T, sigma, RngNext(s), n - 1)

\* payoffs = np.maximum(K - paths[-1], 0), summed over the n paths drawn from s on
RECURSIVE SumPutPayoffs(_, _, _, _)
SumPutPayoffs(T, sigma, s, n) ==
    IF n = 0
    THEN 0
    ELSE Max(KPut - (S + Normal(s) * StdDev(T, sigma)), 0)
         + SumPutPayoffs(T, sigma, RngNext(s), n - 1)

\* get_price_call: np.mean(payoffs) * exp(-r*T) with r = 0.0; the draws come
\* from, and advance, the process-wide generator
get_price_call(T, sigma, s) ==
    [option_price |-> SumCallPayoffs(T, sigma, s, NSamples) \div NSamples,
     rng |-> RngAfter(s, NSamples)]

get_price_put(T, sigma, s) ==
    [option_price |-> SumPutPayoffs(T, sigma, s, NSamples) \div NSamples,
     rng |-> RngAfter(s, NSamples)]

get_price(kind, T, sigma, s) ==
    IF kind = "call" THEN get_price_call(T, sigma, s) ELSE get_price_put(T, sigma, s)

(***************************************************************************)
(* np.amax and np.argmax (0-based, first occurrence of the maximum)        *)
(***************************************************************************)
RECURSIVE AmaxFrom(_, _, _)
AmaxFrom(a, j, best) ==
    IF j > Len(a) THEN best ELSE AmaxFrom(a, j + 1, IF a[j] > best THEN a[j] ELSE best)

np_amax(a) == AmaxFrom(a, 2, a[1])

RECURSIVE ArgmaxFrom(_, _, _)
ArgmaxFrom(a, j, best) ==
    IF j > Len(a) THEN best ELSE ArgmaxFrom(a, j + 1, IF a[j] > a[best] THEN j ELSE best)

\* a variant that keeps the last occurrence of the maximum
RECURSIVE ArgmaxLastFrom(_, _, _)
ArgmaxLastFrom(a, j, best) ==
    IF j > Len(a) THEN best ELSE ArgmaxLastFrom(a, j + 1, IF a[j] >= a[best] THEN j ELSE best)

np_argmax_last(a) == ArgmaxLastFrom(a, 2, 1) - 1

np_argmax(a) == ArgmaxFrom(a, 2, 1) - 1

(***************************************************************************)
(* The scan cells                                                          *)
(***************************************************************************)
\* if i == 20 or i == 21: the volatility the loop passes at loop index ii
\* a variant in which the shock persists after its first step
IsShockStepSticky(ii) == ii >= ShockFirst

\* a variant that reads the loop index as a 1-based day
IsShockStepOneBased(ii) == ii + 1 = ShockFirst \/ ii + 1 = ShockSecond

IsShockStep(ii) == ii = ShockFirst \/ ii = ShockSecond

StepVol(override, ii) == IF override /\ IsShockStep(ii) THEN ShockVol ELSE Vol

\* the loop runs while the range is not exhausted
\* a variant that leaves the loop one iteration early
LoopDoneEarly(ii) == ii >= N - 1

LoopDone(ii) == ii >= N

\* a variant that forgets t += dt
NextTStuck(tt) == tt

\* t += dt
NextT(tt) == tt + 1

Init ==
    /\ nb \in Notebooks
    /\ cell = NoCell
    /\ pc = "idle"
    /\ i = 0
    /\ t = 0
    /\ results = << >>
    /\ conf_list = << >>
    /\ out = NoOut
    /\ rng \in (IF nb = "Classical_Lookback" THEN 0 .. RngMod - 1 ELSE {0})
    /\ rng0 = rng
    /\ priced = << >>
    /\ calls = {}
    /\ noisy = 0
    /\ runs = 0
    /\ probe = NoProbe

\* the head of a scan cell: dt = 1/365; t = dt; results = []; conf_list = []
RunCell(c) ==
    /\ pc \in {"idle", "done"}
    /\ nb = "Classical_Lookback" => runs < MaxRuns
    /\ cell' = c
    /\ pc' = "loop"
    /\ i' = 0
    /\ t' = 1
    /\ results' = << >>
    /\ conf_list' = << >>
    /\ out' = NoOut
    /\ rng0' = rng
    /\ priced' = << >>
    /\ noisy' = 0
    /\ runs' = IF nb = "Classical_Lookback" THEN runs + 1 ELSE runs
    /\ UNCHANGED <<probe, nb, rng, calls>>

\* one iteration of the classical loop: price, append, t += dt
CanStepMC == pc = "loop" /\ nb = "Classical_Lookback" /\ ~LoopDone(i)

StepMC ==
    /\ CanStepMC
    /\ LET sigma == StepVol(cell.override, i)
           r == get_price(cell.kind, t, sigma, rng)
       IN  /\ results' = Append(results, r.option_price)
           /\ rng' = r.rng
           /\ priced' = Append(priced, [tau |-> t, vol |-> sigma,
                                        price |-> r.option_price, conf |-> << >>])
           /\ calls' = calls \cup {[kind |-> cell.kind, T |-> t, sigma |-> sigma,
                                    price |-> r.option_price]}
    /\ t' = NextT(t)
    /\ i' = i + 1
    /\ UNCHANGED <<probe, nb, cell, pc, conf_list, out, rng0, noisy, runs>>

\* one iteration of a quantum loop: build the model, estimate, append both, t += dt
CanStepAE == pc = "loop" /\ nb # "Classical_Lookback" /\ ~LoopDone(i)

StepAE ==
    /\ CanStepAE
    /\ LET vol == StepVol(cell.override, i)
           um == get_uncertainty_model(t, vol)
       IN  \E err \in {0} \cup (IF noisy < MaxNoisyDays THEN Errors(cell.kind, t, vol) ELSE {}) :
               LET r == get_ae_results(cell.kind, um.low, um.high, err)
               IN  /\ results' = Append(results, r.expected_payoff)
                   /\ conf_list' = Append(conf_list, r.conf_int)
                   /\ priced' = Append(priced, [tau |-> t, vol |-> vol,
                                                price |-> r.expected_payoff,
                                                conf |-> r.conf_int])
                   /\ noisy' = IF err = 0 THEN noisy ELSE noisy + 1
    /\ t' = NextT(t)
    /\ i' = i + 1
    /\ UNCHANGED <<probe, nb, cell, pc, out, rng, rng0, calls, runs>>

\* the interval printed with the maximum: conf_list[np.argmax(results)]
\* a variant that prints the interval of the last day
SelectedConfLast(res, confs) == confs[Len(confs)]

SelectedConf(res, confs) == confs[np_argmax(res) + 1]

\* a variant that prints the 0-based index
DayOfMaxZeroBased(res) == np_argmax(res)

\* the day printed: np.argmax(results)+1
DayOfMax(res) == np_argmax(res) + 1

\* after the loop: results = np.array(results) and the prints
CanSelect == pc = "loop" /\ LoopDone(i)

Select ==
    /\ CanSelect
    /\ out' = [value |-> np_amax(results),
               conf |-> IF nb = "Classical_Lookback"
                        THEN << >>
                        ELSE SelectedConf(results, conf_list),
               day |-> DayOfMax(results)]
    /\ pc' = "done"
    /\ UNCHANGED <<probe, nb, cell, i, t, results, conf_list, rng, rng0, priced, calls, noisy, runs>>

(***************************************************************************)
(* Direct calls of the helper functions, with arguments other than the     *)
(* ones the scan cells pass.                                               *)
(***************************************************************************)
\* what the LogNormalDistribution constructor does with the bounds: the
\* function itself checks nothing, and whether the library refuses
\* degenerate bounds is the library's choice
LibraryOutcomes(low, high) == IF high > low THEN {"none"} ELSE {"none", "ValueError"}

\* get_uncertainty_model(tt, vol=vol) called in a quantum notebook
CallUncertaintyModel(tt, vol) ==
    /\ pc = "idle"
    /\ probe = NoProbe
    /\ nb # "Classical_Lookback"
    /\ LET um == get_uncertainty_model(tt, vol)
       IN  \E raised \in LibraryOutcomes(um.low, um.high) :
               probe' = [fn |-> "get_uncertainty_model",
                         args |-> <<tt, vol>>,
                         ret |-> IF raised = "none" THEN <<um.low, um.high>> ELSE << >>,
                         raised |-> raised]
    /\ UNCHANGED <<nb, rng>>
    /\ UNCHANGED scanVars

\* get_price_call(T, sigma=sigma) or get_price_put(T, sigma=sigma) called in
\* the classical notebook: neither function checks its arguments
CallPrice(kind, T, sigma) ==
    /\ pc = "idle"
    /\ probe = NoProbe
    /\ nb = "Classical_Lookback"
    /\ LET r == get_price(kind, T, sigma, rng)
       IN  /\ probe' = [fn |-> IF kind = "call" THEN "get_price_call" ELSE "get_price_put",
                         args |-> <<T, sigma>>,
                         ret |-> <<r.option_price>>,
                         raised |-> "none"]
           /\ rng' = r.rng
    /\ UNCHANGED nb
    /\ UNCHANGED scanVars

\* the image (f_min, f_max) get_ae_results declares for the put objective
PutImage(low, K) == [f_min |-> 0, f_max |-> K - low]

\* what the LinearAmplitudeFunction constructor does with the objective: the
\* function itself checks nothing, and whether the library refuses an image
\* that is empty or inverted is the library's choice
ObjectiveOutcomes(f_min, f_max) == IF f_max > f_min THEN {"none"} ELSE {"none", "ValueError"}

\* the payoffs the put objective encodes at the grid points (times GridMax)
PutPayoffs(low, high, K) ==
    [g \in 1 .. GridMax + 1 |-> PutObjective(GridPoint(low, high, g - 1), low, K)]

\* get_ae_results(um, low, high, strike_price=K) called in the put notebook,
\* with the model and bounds of maturity tt and volatility vol
CallPutObjective(tt, vol, K) ==
    /\ pc = "idle"
    /\ probe = NoProbe
    /\ nb = "Quantum_Lookback_Put"
    /\ LET um == get_uncertainty_model(tt, vol)
           image == PutImage(um.low, K)
       IN  \E raised \in ObjectiveOutcomes(image.f_min, image.f_max) :
               probe' = [fn |-> "get_ae_results",
                         args |-> <<um.low, um.high, K>>,
                         ret |-> <<image.f_min, image.f_max>> \o PutPayoffs(um.low, um.high, K),
                         raised |-> raised]
    /\ UNCHANGED <<nb, rng>>
    /\ UNCHANGED scanVars

FnNext ==
    \/ \E tt \in 1 .. MaxProbeT, vol \in -MaxProbeVol .. MaxProbeVol : CallUncertaintyModel(tt, vol)
    \/ \E vol \in -MaxProbeVol .. MaxProbeVol : CallUncertaintyModel(0, vol)
    \/ \E kind \in {"call", "put"}, T \in 0 .. MaxProbeT, sigma \in -MaxProbeVol .. MaxProbeVol :
           CallPrice(kind, T, sigma)
    \/ \E tt \in 1 .. MaxProbeT, vol \in 1 .. MaxProbeVol, k \in 0 .. MaxStrikeSteps :
           CallPutObjective(tt, vol, k * StrikeStep)

FnSpec == Init /\ [][FnNext]_vars

(***************************************************************************)
(* An exception inside the loop body.  The loop has no try/except: an      *)
(* exception raised by a library call while building the model or pricing  *)
(* day i+1 ends the cell; the names keep what they were bound to.  The     *)
(* model injects failures while the estimator's misbehaviour budget of the *)
(* cell is unused, and follows the kernel no further after a failure.      *)
(***************************************************************************)
\* a variant that swallows the exception: a 0 stands for the day's payoff
StepFailsSwallowed ==
    /\ pc = "loop"
    /\ ~LoopDone(i)
    /\ noisy < MaxNoisyDays
    /\ results' = Append(results, 0)
    /\ t' = NextT(t)
    /\ i' = i + 1
    /\ UNCHANGED <<probe, nb, cell, pc, conf_list, out, rng, rng0, priced, calls, noisy, runs>>

StepFails ==
    /\ pc = "loop"
    /\ ~LoopDone(i)
    /\ noisy < MaxNoisyDays
    /\ pc' = "error"
    /\ UNCHANGED <<probe, nb, cell, i, t, results, conf_list, out, rng, rng0, priced, calls,
                   noisy, runs>>

Next ==
    \/ \E c \in Cells(nb) : RunCell(c)
    \/ StepMC
    \/ StepAE
    \/ Select

Spec == Init /\ [][Next]_vars

\* the scans with failing library calls
FaultNext ==
    \/ \E c \in Cells(nb) : RunCell(c)
    \/ StepMC
    \/ StepAE
    \/ StepFails
    \/ Select

FaultSpec == Init /\ [][FaultNext]_vars

(***************************************************************************)
(* Properties                                                              *)
(***************************************************************************)
Quantum == nb # "Classical_Lookback"

\* C1: after every completed scan, call or put, the printed value is the
\* maximum of the per-day results and the printed day is the 1-based index
\* of the first day that attains it.
C1_MaxFirstDay ==
    pc = "done" =>
        /\ out.day \in 1 .. Len(results)
        /\ results[out.day] = out.value
        /\ \A j \in 1 .. Len(results) : results[j] <= out.value
        /\ \A j \in 1 .. out.day - 1 : results[j] < out.value

\* a completed put scan in which a later day ties with the reported day
C1_Witness ==
    /\ pc = "done"
    /\ cell.kind = "put"
    /\ \E j \in out.day + 1 .. Len(results) : results[j] = out.value
    /\ \E j \in 1 .. Len(results) : results[j] < out.value

\* C2: the printed confidence interval is the interval the estimation
\* returned for the reported day, unchanged.
C2_IntervalOfWinningDay ==
    (pc = "done" /\ Quantum) =>
        /\ out.conf = conf_list[out.day]
        /\ out.conf = priced[out.day].conf

\* a completed quantum scan whose reported day is not the last day and whose
\* interval differs from the last day's
C2_Witness ==
    /\ pc = "done"
    /\ Quantum
    /\ out.day < N
    /\ out.conf # conf_list[N]

Variance(d) == priced[d].vol * priced[d].vol * priced[d].tau

\* each day's result is strictly increasing in that day's total variance
MonotoneInVariance ==
    \A j, k \in 1 .. Len(results) : Variance(j) < Variance(k) => results[j] < results[k]

MonotoneInTau ==
    \A j, k \in 1 .. Len(results) : priced[j].tau < priced[k].tau => results[j] < results[k]

\* C5: in a completed scan without override (vol 0.4 on every day, 40 daily
\* steps up to 40/365) whose results are strictly increasing in tau, the
\* selected day is 40, the last day of the grid.
C5_ScenarioA ==
    (pc = "done" /\ ~cell.override /\ MonotoneInTau) =>
        /\ \A d \in 1 .. Len(priced) : priced[d].vol = Vol
        /\ Len(priced) = N
        /\ priced[N].tau = N
        /\ out.day = N

\* a completed uniform scan with results strictly increasing in tau
C5_Witness ==
    /\ pc = "done"
    /\ ~cell.override
    /\ Len(results) = N
    /\ MonotoneInTau
    /\ out.day = N

IsPrefix(a, b) == Len(a) <= Len(b) /\ SubSeq(b, 1, Len(a)) = a

\* the shape of the scan at every point
ScanShape ==
    /\ Len(results) = i
    /\ Len(priced) = i
    /\ i <= N
    /\ pc = "loop" => t = i + 1
    /\ pc = "done" => Len(results) = N
    /\ \A k \in 1 .. Len(results) :
           /\ priced[k].tau = k
           /\ priced[k].tau > 0
           /\ results[k] = priced[k].price
    /\ \A j, k \in 1 .. Len(priced) : j < k => priced[j].tau < priced[k].tau
    /\ pc = "loop" => (CanStepMC \/ CanStepAE \/ CanSelect)

\* C6: the scan ends after exactly N = 40 steps with one result per day in
\* day order: inside the loop the list only grows at its end, after the loop
\* it has N entries, entry k is what the pricer returned for day k at
\* tau = k * dt (so tau > 0 and strictly increasing), and a scan inside its
\* loop can always take its next step, up to the end.
C6_OneResultPerDay ==
    /\ []ScanShape
    /\ [][pc = "loop" => (/\ IsPrefix(results, results')
                          /\ pc' = "loop" => (i' = i + 1 /\ Len(results') = Len(results) + 1)
                          /\ pc' = "done" => (i = N /\ results' = results))]_vars

\* a finished scan: N results, the last one priced at tau = N * dt
C6_Witness ==
    /\ pc = "done"
    /\ Len(results) = N
    /\ priced[N].tau = N
    /\ priced[1].tau = 1

\* C7: the selection runs only once all N results are collected, and no
\* result is appended or changed by the selection or after it.
C7_FanInBarrier ==
    [][out' # NoOut => (/\ Len(results') = N
                        /\ pc' = "done"
                        /\ results' = results
                        /\ conf_list' = conf_list)]_vars

\* a scan whose selection has run
C7_Witness ==
    /\ out # NoOut
    /\ Len(results) = N
    /\ out.day \in 1 .. N

C9_Deterministic ==
    \A a, b \in calls :
        (a.kind = b.kind /\ a.T = b.T /\ a.sigma = b.sigma) => a.price = b.price

\* C10: the result recorded for day k depends on day k's own tau, market
\* parameters and override only: it is what pricing day k first (from the
\* state the cell started in) returns.
C10_Independent ==
    ~Quantum =>
        \A k \in 1 .. Len(results) :
            results[k] = get_price(cell.kind, priced[k].tau, priced[k].vol, rng0).option_price


(***************************************************************************)
(* Properties of the helper functions, under FnSpec                        *)
(***************************************************************************)
\* the sign of sigma = vol * sqrt(t) of a direct call
ProbeSigmaSign ==
    IF probe.args[1] = 0 \/ probe.args[2] = 0 THEN 0
    ELSE IF probe.args[2] > 0 THEN 1 ELSE -1

\* C11: get_uncertainty_model fails with an error (by whatever name)
\* whenever sigma <= 0 or high <= low, and then returns no distribution and
\* no bounds.
C11_DegenerateRejected ==
    (probe.fn = "get_uncertainty_model" /\ ProbeSigmaSign <= 0) =>
        /\ probe.raised # "none"
        /\ probe.ret = << >>

\* C13: the bounds get_uncertainty_model returns satisfy low >= 0, and
\* high > low whenever sigma > 0 and tau > 0 (bounds are then returned).
C13_BoundsOrdered ==
    probe.fn = "get_uncertainty_model" =>
        /\ probe.ret # << >> => probe.ret[1] >= 0
        /\ ProbeSigmaSign > 0 => (probe.ret # << >> /\ probe.ret[2] > probe.ret[1])

\* a call with sigma > 0 whose mean - 3 * stddev is negative: low is the floor 0
C13_Witness ==
    /\ probe.fn = "get_uncertainty_model"
    /\ ProbeSigmaSign > 0
    /\ S - 3 * StdDev(probe.args[1], probe.args[2]) < 0
    /\ probe.ret # << >>
    /\ probe.ret[1] = 0
    /\ probe.ret[2] > S


\* C12: a call with an invalid configuration (here: a negative volatility)
\* is rejected with an error and prices nothing.
C12_InvalidConfigRejected ==
    (/\ probe.fn \in {"get_price_call", "get_price_put", "get_uncertainty_model"}
     /\ probe.args[2] < 0) =>
        /\ probe.raised # "none"
        /\ probe.ret = << >>

\* C15: for every strike K, also K < low and K > high, the put objective is
\* accepted without error, encodes max(K - x, 0) at every grid point x of
\* [low, high], and that value lies in the declared image, f_min <= f_max.
C15_PutObjectiveInImage ==
    probe.fn = "get_ae_results" =>
        LET low == probe.args[1]
            high == probe.args[2]
            K == probe.args[3]
            f_min == probe.ret[1]
            f_max == probe.ret[2]
        IN  /\ probe.raised = "none"
            /\ f_min <= f_max
            /\ \A g \in 0 .. GridMax :
                   LET payoff == probe.ret[g + 3]
                   IN  /\ payoff = Max(GridMax * K - GridPoint(low, high, g), 0)
                       /\ GridMax * f_min <= payoff
                       /\ payoff <= GridMax * f_max


(***************************************************************************)
(* Properties of the scans with failing library calls, under FaultSpec     *)
(***************************************************************************)
\* every entry of results is what the pricer returned for that day
OnlyPricedEntries ==
    /\ Len(results) <= Len(priced)
    /\ \A k \in 1 .. Len(results) : results[k] = priced[k].price

\* C14: an error raised while building the model or pricing day k is never
\* turned into a payoff: nothing is appended for day k, the error ends the
\* loop, no later day is priced and nothing is printed from the partial
\* results.
C14_ErrorPropagates ==
    /\ [](OnlyPricedEntries /\ Len(results) = i)
    /\ [](pc = "error" => (out = NoOut /\ Len(results) < N))
    /\ [][pc' = "error" => (results' = results /\ conf_list' = conf_list /\ out' = NoOut)]_vars
    /\ [][pc = "error" => (pc' = "error" /\ results' = results /\ out' = NoOut)]_vars

\* a scan that an error ended after some days were priced
C14_Witness ==
    /\ pc = "error"
    /\ Len(results) > 0
    /\ Len(results) < N
    /\ out = NoOut

====
